---------------------------- MODULE Spec2Model ----------------------------
(***************************************************************************)
(* Model of the concurrent crawl pipeline of scanterog/crawler             *)
(* (package crawler: Crawler.Run and the goroutines it starts).            *)
(*                                                                         *)
(* A Go string is a sequence of one-character strings, so that             *)
(* strings.TrimPrefix, strings.TrimSuffix, the media regular expression    *)
(* and fmt.Sprintf are computed as the code computes them.  What           *)
(* net/url.Parse returns for an href is given by the world (a record of    *)
(* the components Scheme, Host, Path, Fragment, or a parse error).         *)
(*                                                                         *)
(* Every goroutine is a process with a program counter.  One action is one *)
(* channel operation (send, receive, close, WaitGroup wait) together with  *)
(* the goroutine-local code that follows it up to the next channel         *)
(* operation.  A send on the unbuffered channel workQueueDelta is one      *)
(* action shared by the sender and workQueueDoneChecker's receive.         *)
(***************************************************************************)
EXTENDS Integers, Sequences, FiniteSets, Bags, TLC

\* ------------------------------------------------------------ bounds
\* Largest NumWorkers a configuration is given.
MaxWorkers == 2

\* ------------------------------------------------------------ strings
Str_http   == <<"h","t","t","p">>
Str_https  == <<"h","t","t","p","s">>
Str_ftp    == <<"f","t","p">>
Str_mailto == <<"m","a","i","l","t","o">>
Str_slash  == <<"/">>
Str_dot    == <<".">>
Str_h      == <<"h">>
Str_x      == <<"x">>
Str_a      == <<"/","a">>
Str_aSlash == <<"/","a","/">>
Str_b      == <<"/","b">>
Str_help   == <<"/","h","e","l","p">>
Str_png    == <<"/","i",".","p","n","g">>
Str_top    == <<"t","o","p">>

\* strings.HasPrefix / strings.HasSuffix
HasPrefix(s, p) == Len(s) >= Len(p) /\ SubSeq(s, 1, Len(p)) = p
HasSuffix(s, p) == Len(s) >= Len(p) /\ SubSeq(s, Len(s) - Len(p) + 1, Len(s)) = p

\* strings.TrimPrefix(s, p): s without the leading p, or s itself.
TrimPrefix(s, p) == IF HasPrefix(s, p) THEN SubSeq(s, Len(p) + 1, Len(s)) ELSE s

\* strings.TrimSuffix(s, p): s without the trailing p, or s itself.
TrimSuffix(s, p) == IF HasSuffix(s, p) THEN SubSeq(s, 1, Len(s) - Len(p)) ELSE s

\* ------------------------------------------------------------ errors
Nil == "nil"
ErrInvalidURL               == "invalid URL"
ErrInvalidAbsoluteURL       == "invalid absolute URL"
ErrInvalidURLScheme         == "invalid URL scheme: only http(s) supported"
ErrInvalidNumWorkers        == "invalid number of workers"
ErrInvalidHTTPClientTimeout == "invalid HTTP Client timeout"
ErrCreateFile               == "can't create siteMap output file"

\* ------------------------------------------------------------ URLs
\* What url.Parse returns: the components of the string, or an error.
Parsed(scheme, host, path, fragment) ==
    [ok |-> TRUE, Scheme |-> scheme, Host |-> host, Path |-> path, Fragment |-> fragment]
Unparsable == [ok |-> FALSE, Scheme |-> <<>>, Host |-> <<>>, Path |-> <<>>, Fragment |-> <<>>]

\* A *url.URL value.
MkURL(scheme, host, path, fragment) ==
    [Scheme |-> scheme, Host |-> host, Path |-> path, Fragment |-> fragment]
NoURL == MkURL(<<>>, <<>>, <<>>, <<>>)

\* (*url.URL).String(): scheme ":" "//" host path "#" fragment.
URLString(u) ==
    (IF u.Scheme # <<>> THEN u.Scheme \o <<":">> ELSE <<>>)
    \o (IF u.Scheme # <<>> \/ u.Host # <<>>
        THEN (IF u.Host # <<>> \/ u.Path # <<>> THEN <<"/","/">> ELSE <<>>) \o u.Host
        ELSE <<>>)
    \o u.Path
    \o (IF u.Fragment # <<>> THEN <<"#">> \o u.Fragment ELSE <<>>)

\* strToURL: only http(s) schemes, fragment dropped, trailing slash removed.
strToURL(raw) ==
    IF ~raw.ok THEN [err |-> ErrInvalidURL, url |-> NoURL]
    ELSE IF raw.Scheme # <<>> /\ raw.Scheme # Str_http /\ raw.Scheme # Str_https
    THEN [err |-> ErrInvalidURLScheme, url |-> NoURL]
    ELSE LET p == TrimSuffix(raw.Path, Str_slash)
         IN  [err |-> Nil,
              url |-> MkURL(raw.Scheme, raw.Host, IF p = Str_dot THEN <<>> ELSE p, <<>>)]

\* strToAbsoluteURL: strToURL, and scheme and host must be present.
strToAbsoluteURL(raw) ==
    LET r == strToURL(raw)
    IN  IF r.err # Nil THEN r
        ELSE IF r.url.Scheme = <<>> \/ r.url.Host = <<>>
        THEN [err |-> ErrInvalidAbsoluteURL, url |-> NoURL]
        ELSE r

\* A webSite value.  The pointer Parent is <<>> when nil (the seed) and <<u>>
\* when it points to the URL u.
NoParent == <<>>
MkSite(u, parent) == [URL |-> u, Parent |-> parent]

\* isExternalURL comparing the schemes instead of the hosts.
isExternalURL_ByScheme(s) == s.Parent # NoParent /\ s.URL.Scheme # s.Parent[1].Scheme

isExternalURL(s) == s.Parent # NoParent /\ s.URL.Host # s.Parent[1].Host

isRelativeURL(u) == u.Scheme = <<>> \/ u.Host = <<>>

\* The alternatives of the regular expression \.(jpg|jpeg|png|svg|gif|pdf|csv)$
MediaSuffixes ==
    { <<".","j","p","g">>, <<".","j","p","e","g">>, <<".","p","n","g">>,
      <<".","s","v","g">>, <<".","g","i","f">>, <<".","p","d","f">>,
      <<".","c","s","v">> }

isMediaURL(u) == \E suf \in MediaSuffixes : HasSuffix(u.Path, suf)

\* SiteKey with the scheme left in the key.
SiteKey_KeepScheme(s) == URLString(s.URL)

\* The key of visitedSites: strings.TrimPrefix(URL.String(), URL.Scheme).
SiteKey(s) == TrimPrefix(URLString(s.URL), s.URL.Scheme)


\* ------------------------------------------------------------ the world
\* The web the Fetcher sees.  The seed is "http://h" or "http://h/b".  Hrefs(u) is what getLinks
\* extracts from the page served at u, each href as url.Parse splits it:
\*   http://h    : "/a" "mailto:t" "/a/#top" "http://x/" "/i.png" "/b" "/help"
\*   http://h/a  : "/" "https://h/b" and one href url.Parse rejects
\*   http://h/b  : no link
\* Every other page, "/help" among them, is answered with status 404.
SeedRaw == Parsed(Str_http, Str_h, <<>>, <<>>)

HrefsRoot ==
    << Parsed(<<>>, <<>>, Str_a, <<>>),
       Parsed(Str_mailto, <<>>, <<>>, <<>>),
       Parsed(<<>>, <<>>, Str_aSlash, Str_top),
       Parsed(Str_http, Str_x, Str_slash, <<>>),
       Parsed(<<>>, <<>>, Str_png, <<>>),
       Parsed(<<>>, <<>>, Str_b, <<>>),
       Parsed(<<>>, <<>>, Str_help, <<>>) >>

HrefsA ==
    << Parsed(<<>>, <<>>, Str_slash, <<>>),
       Parsed(Str_https, Str_h, Str_b, <<>>),
       Unparsable >>

StatusNotFound == 404
StatusBadRequest == 400

Served(u) == u.Host = Str_h /\ u.Path \in {<<>>, Str_a, Str_b}

Status(u) == IF Served(u) THEN 200 ELSE StatusNotFound

Hrefs(u) ==
    IF u.Host = Str_h /\ u.Path = <<>> THEN HrefsRoot
    ELSE IF u.Host = Str_h /\ u.Path = Str_a THEN HrefsA
    ELSE <<>>

\* What can happen to one GET: the server's answer arrives and parses, the
\* transport fails (error or timeout), or the body cannot be read as a document.
FetchOutcomes == {"ok", "transport", "extract"}

\* ------------------------------------------------------------ getNewSites
\* A relative URL inherits the page's scheme and host.
Resolve(s, u) ==
    IF isRelativeURL(u)
    THEN [u EXCEPT !.Scheme = IF @ = <<>> THEN s.URL.Scheme ELSE @,
                   !.Host   = IF @ = <<>> THEN s.URL.Host ELSE @]
    ELSE u

RECURSIVE getNewSitesFrom(_, _, _, _)
getNewSitesFrom(s, links, urlSet, newSites) ==
    IF links = <<>> THEN newSites
    ELSE LET r == strToURL(Head(links))
         IN  IF r.err # Nil
             THEN getNewSitesFrom(s, Tail(links), urlSet, newSites)
             ELSE LET newURL == Resolve(s, r.url)
                      str    == URLString(newURL)
                  IN  IF str \notin urlSet
                      THEN getNewSitesFrom(s, Tail(links), urlSet \cup {str},
                                           Append(newSites, MkSite(newURL, <<s.URL>>)))
                      ELSE getNewSitesFrom(s, Tail(links), urlSet, newSites)

\* getNewSites without the urlSet test: every parsable href becomes a new site.
RECURSIVE getNewSites_NoDedup(_, _)
getNewSites_NoDedup(s, links) ==
    IF links = <<>> THEN <<>>
    ELSE LET r == strToURL(Head(links))
         IN  IF r.err # Nil
             THEN getNewSites_NoDedup(s, Tail(links))
             ELSE <<MkSite(Resolve(s, r.url), <<s.URL>>)>>
                  \o getNewSites_NoDedup(s, Tail(links))

getNewSites(s, links) == getNewSitesFrom(s, links, {}, <<>>)

\* scrape without its send on workQueueDelta: the error and the new sites.
scrape(s, outcome) ==
    IF outcome = "transport" THEN [err |-> "transport", sites |-> <<>>]
    ELSE IF Status(s.URL) >= StatusBadRequest THEN [err |-> "status", sites |-> <<>>]
    ELSE IF outcome = "extract" THEN [err |-> "failed to get links", sites |-> <<>>]
    ELSE [err |-> Nil, sites |-> getNewSites(s, Hrefs(s.URL))]

\* fmt.Sprintf("%v -> %v\n", source, child)
Line(src, child) ==
    URLString(src.URL) \o <<" ", "-", ">", " ">> \o URLString(child.URL) \o <<"\n">>

RECURSIVE LinesOf(_, _)
LinesOf(src, children) ==
    IF children = <<>> THEN EmptyBag
    ELSE SetToBag({Line(src, Head(children))}) (+) LinesOf(src, Tail(children))

\* ------------------------------------------------------------ validate
\* validate testing numWorkers < 0 instead of numWorkers <= 0.
validate_ZeroWorkers(seed, numWorkers, timeoutSec, writer, created) ==
    IF strToAbsoluteURL(seed).err # Nil THEN strToAbsoluteURL(seed).err
    ELSE IF numWorkers < 0 THEN ErrInvalidNumWorkers
    ELSE IF timeoutSec < 0 THEN ErrInvalidHTTPClientTimeout
    ELSE IF ~writer /\ ~created THEN ErrCreateFile
    ELSE Nil

\* Crawler.validate: the error Run returns, Nil if none.  created tells whether
\* os.Create succeeds on SiteMapOutputFile.
validate(seed, numWorkers, timeoutSec, writer, created) ==
    IF strToAbsoluteURL(seed).err # Nil THEN strToAbsoluteURL(seed).err
    ELSE IF numWorkers <= 0 THEN ErrInvalidNumWorkers
    ELSE IF timeoutSec < 0 THEN ErrInvalidHTTPClientTimeout
    ELSE IF ~writer /\ ~created THEN ErrCreateFile
    ELSE Nil


\* ------------------------------------------------------------ state
VARIABLES
    SeedURL,               \* Crawler.SeedURL, as url.Parse splits it
    NumWorkers,            \* Crawler.NumWorkers
    HTTPClientTimeoutSec,  \* Crawler.HTTPClientTimeoutSec
    SiteMapWriter,         \* Crawler.SiteMapWriter is not nil
    runPc,                 \* where Run is
    runErr,                \* what Run returned
    started,               \* startOnce has run init: the channels exist
    workQueue,             \* buffered channel of webSite
    workQueueClosed,
    siteFilterQueue,       \* buffered channel of webSite
    siteFilterQueueClosed,
    resultQueue,           \* buffered channel of result
    resultQueueClosed,
    visitedSites,          \* set of keys
    wg,                    \* the WaitGroup's counter
    seedPc,                \* the seed goroutine of Run
    dcPc,                  \* workQueueDoneChecker
    workQueueSize,         \* its local running total
    appPc,                 \* workQueueAppender
    appSite,               \* its newSite
    wPc,                   \* startWorker(i), i in 1..NumWorkers
    wSite,                 \* its site
    wNewSites,             \* its newSites
    forwarders,            \* bag of the detached goroutines' unsent children
    smbPc,                 \* siteMapBuilder
    sink,                  \* bag of the lines written to SiteMapWriter
    panic,                 \* the runtime panic that ended the process, or Nil
    attempts,              \* history: bag of the sites a GET was made for
    okPages,               \* history: bag of the sites scrape returned no error for
    emitted,               \* history: bag of the results put on resultQueue
    consumed,              \* history: bag of the results siteMapBuilder received
    admitted,              \* history: bag of the sites forwarded to workQueue
    nDeltas,               \* history: number of deltas applied to workQueueSize
    zeroHits,              \* history: number of deltas that made workQueueSize zero
    lateDelta,             \* history: a delta was applied after workQueueSize hit zero
    closeCalls,            \* history: number of close(workQueue) executed
    credited,              \* history: bag of the sites a credit was applied for
    retired,               \* history: bag of <<site, stage>>, one per -1 applied
    entered                \* history: bag of the sites sent to siteFilterQueue

config  == <<SeedURL, NumWorkers, HTTPClientTimeoutSec, SiteMapWriter>>
runVars == <<runPc, runErr, started>>
chans   == <<workQueue, workQueueClosed, siteFilterQueue, siteFilterQueueClosed,
             resultQueue, resultQueueClosed>>
dcVars  == <<dcPc, workQueueSize, nDeltas, zeroHits, lateDelta, closeCalls,
             credited, retired>>
appVars == <<appPc, appSite, visitedSites, admitted>>
wVars   == <<wPc, wSite, wNewSites, wg, attempts, okPages, emitted>>
smbVars == <<smbPc, sink, consumed>>
vars    == <<config, runVars, chans, dcVars, appVars, wVars, smbVars,
             seedPc, forwarders, panic, entered>>

Workers == DOMAIN wPc

\* init: workQueueCapacity = NumWorkers * 2, the capacity of the three queues.
workQueueCapacity == NumWorkers * 2

NoSite == MkSite(NoURL, NoParent)

\* The configurations Run is called with.
SeedChoices ==
    { SeedRaw,                                   \* "http://h"
      Parsed(Str_http, Str_h, Str_b, <<>>),      \* "http://h/b"
      Parsed(<<>>, <<>>, Str_a, <<>>),           \* "/a"
      Parsed(Str_ftp, Str_h, <<>>, <<>>),        \* "ftp://h"
      Parsed(<<>>, <<>>, <<>>, <<>>),            \* ""
      Unparsable }
TimeoutChoices == {-1, 0}

Init ==
    /\ SeedURL \in SeedChoices
    /\ NumWorkers \in -1..MaxWorkers
    /\ HTTPClientTimeoutSec \in TimeoutChoices
    /\ SiteMapWriter \in BOOLEAN
    /\ runPc = "validate"
    /\ runErr = Nil
    /\ started = FALSE
    /\ workQueue = <<>> /\ workQueueClosed = FALSE
    /\ siteFilterQueue = <<>> /\ siteFilterQueueClosed = FALSE
    /\ resultQueue = <<>> /\ resultQueueClosed = FALSE
    /\ visitedSites = {}
    /\ wg = 0
    /\ seedPc = "none"
    /\ dcPc = "none"
    /\ workQueueSize = 0
    /\ appPc = "none"
    /\ appSite = NoSite
    /\ wPc = <<>>
    /\ wSite = <<>>
    /\ wNewSites = <<>>
    /\ forwarders = EmptyBag
    /\ smbPc = "none"
    /\ sink = EmptyBag
    /\ panic = Nil
    /\ attempts = EmptyBag
    /\ okPages = EmptyBag
    /\ emitted = EmptyBag
    /\ consumed = EmptyBag
    /\ admitted = EmptyBag
    /\ nDeltas = 0
    /\ zeroHits = 0
    /\ lateDelta = FALSE
    /\ closeCalls = 0
    /\ credited = EmptyBag
    /\ retired = EmptyBag
    /\ entered = EmptyBag

\* The process runs until a goroutine panics.
Alive == panic = Nil

One(x) == SetToBag({x})

\* The bag of the elements of a sequence.
BagOfSeq(q) ==
    [x \in {q[i] : i \in DOMAIN q} |-> Cardinality({i \in DOMAIN q : q[i] = x})]


\* A goroutine panics: the process ends there.
Panics(msg) ==
    /\ panic' = msg
    /\ UNCHANGED <<config, runVars, chans, dcVars, appVars, wVars, smbVars,
                   seedPc, forwarders,
                   entered>>

\* ------------------------------------------------------------ Run
\* Run, lines 65-68: validate; an error is returned at once.
RunValidate ==
    /\ Alive
    /\ runPc = "validate"
    /\ \E created \in BOOLEAN :
         LET err == validate(SeedURL, NumWorkers, HTTPClientTimeoutSec,
                                SiteMapWriter, created)
         IN  IF err # Nil
             THEN /\ runPc' = "returned"
                  /\ runErr' = err
                  /\ UNCHANGED SiteMapWriter
             ELSE /\ runPc' = "init"
                  /\ runErr' = Nil
                  /\ SiteMapWriter' = TRUE
    /\ UNCHANGED <<SeedURL, NumWorkers, HTTPClientTimeoutSec, started, chans, dcVars,
                   appVars, wVars, smbVars, seedPc, forwarders, panic,
                   entered>>

\* Run, lines 69-85: init makes the channels, then the goroutines are started.
RunStart ==
    /\ Alive
    /\ runPc = "init"
    /\ started' = TRUE
    /\ seedPc' = "sendSite"
    /\ dcPc' = "recv"
    /\ appPc' = "recv"
    /\ smbPc' = "recv"
    /\ wPc' = [w \in 1..NumWorkers |-> "dequeue"]
    /\ wSite' = [w \in 1..NumWorkers |-> NoSite]
    /\ wNewSites' = [w \in 1..NumWorkers |-> <<>>]
    /\ wg' = NumWorkers
    /\ runPc' = "wait"
    /\ UNCHANGED <<config, runErr, chans, workQueueSize, nDeltas, zeroHits, lateDelta,
                   closeCalls, appSite, visitedSites, admitted, attempts, okPages,
                   emitted, sink, consumed, forwarders, panic,
                   credited, retired, entered>>

\* Run closing siteFilterQueue without wg.Wait().
RunCloseSiteFilterQueue_NoWait ==
    /\ Alive
    /\ runPc = "wait"
    /\ siteFilterQueueClosed' = TRUE
    /\ runPc' = "closeResult"
    /\ UNCHANGED <<config, runErr, started, workQueue, workQueueClosed, siteFilterQueue,
                   resultQueue, resultQueueClosed, dcVars, appVars, wVars, smbVars,
                   seedPc, forwarders, panic,
                   entered>>

\* Run, lines 86-87: wg.Wait(), then close(siteFilterQueue).
RunCloseSiteFilterQueue ==
    /\ Alive
    /\ runPc = "wait"
    /\ wg = 0
    /\ siteFilterQueueClosed' = TRUE
    /\ runPc' = "closeResult"
    /\ UNCHANGED <<config, runErr, started, workQueue, workQueueClosed, siteFilterQueue,
                   resultQueue, resultQueueClosed, dcVars, appVars, wVars, smbVars,
                   seedPc, forwarders, panic,
                   entered>>

\* Run, line 88: close(resultQueue).
RunCloseResultQueue ==
    /\ Alive
    /\ runPc = "closeResult"
    /\ resultQueueClosed' = TRUE
    /\ runPc' = "waitDone"
    /\ UNCHANGED <<config, runErr, started, workQueue, workQueueClosed, siteFilterQueue,
                   siteFilterQueueClosed, resultQueue, dcVars, appVars, wVars, smbVars,
                   seedPc, forwarders, panic,
                   entered>>

\* Run, lines 89-90, with siteMapBuilder's line 165: siteMapDone is unbuffered,
\* so the send and the receive are one step; Run then returns nil.
RunReturn ==
    /\ Alive
    /\ runPc = "waitDone"
    /\ smbPc = "sendDone"
    /\ smbPc' = "exited"
    /\ runPc' = "returned"
    /\ runErr' = Nil
    /\ UNCHANGED <<config, started, chans, dcVars, appVars, wVars, sink, consumed,
                   seedPc, forwarders, panic,
                   entered>>

\* ------------------------------------------------------------ workQueueDoneChecker
\* Lines 130-132: the receive of one delta from workQueueDelta, which is the
\* sender's send, and workQueueSize += delta.
ApplyDelta(delta) ==
    /\ dcPc = "recv"
    /\ workQueueSize' = workQueueSize + delta
    /\ nDeltas' = nDeltas + 1
    /\ zeroHits' = zeroHits + (IF workQueueSize + delta = 0 THEN 1 ELSE 0)
    /\ lateDelta' = (lateDelta \/ zeroHits > 0)
    /\ dcPc' = "check"
    /\ UNCHANGED closeCalls

\* Lines 133-135: close(workQueue) when the total is zero.  Closing a closed
\* channel panics.
DoneCheckerCheck ==
    /\ Alive
    /\ dcPc = "check"
    /\ IF workQueueSize = 0
       THEN /\ closeCalls' = closeCalls + 1
            /\ IF workQueueClosed
               THEN /\ panic' = "close of closed channel"
                    /\ UNCHANGED <<workQueueClosed, dcPc>>
               ELSE /\ workQueueClosed' = TRUE
                    /\ dcPc' = "recv"
                    /\ UNCHANGED panic
       ELSE /\ dcPc' = "recv"
            /\ UNCHANGED <<closeCalls, workQueueClosed, panic>>
    /\ UNCHANGED <<config, runVars, workQueue, siteFilterQueue, siteFilterQueueClosed,
                   resultQueue, resultQueueClosed, workQueueSize, nDeltas, zeroHits,
                   lateDelta, appVars, wVars, smbVars, seedPc, forwarders,
                   credited, retired, entered>>

\* ------------------------------------------------------------ the seed goroutine
\* Line 74: siteFilterQueue <- webSite{URL: u, Parent: nil}
SeedSendSite ==
    /\ Alive
    /\ seedPc = "sendSite"
    /\ IF siteFilterQueueClosed
       THEN Panics("send on closed channel")
       ELSE /\ Len(siteFilterQueue) < workQueueCapacity
            /\ siteFilterQueue' =
                 Append(siteFilterQueue, MkSite(strToAbsoluteURL(SeedURL).url, NoParent))
            /\ entered' = entered (+) One(MkSite(strToAbsoluteURL(SeedURL).url, NoParent))
            /\ seedPc' = "sendDelta"
            /\ UNCHANGED <<config, runVars, workQueue, workQueueClosed,
                           siteFilterQueueClosed, resultQueue, resultQueueClosed, dcVars,
                           appVars, wVars, smbVars, forwarders, panic>>

\* Line 75: workQueueDelta <- 1
SeedSendDelta ==
    /\ Alive
    /\ seedPc = "sendDelta"
    /\ ApplyDelta(1)
    /\ credited' = credited (+) One(MkSite(strToAbsoluteURL(SeedURL).url, NoParent))
    /\ seedPc' = "done"
    /\ UNCHANGED <<config, runVars, chans, appVars, wVars, smbVars, forwarders, panic,
                   retired, entered>>

\* ------------------------------------------------------------ workQueueAppender
\* Lines 141-150: receive newSite and classify it; a first-seen internal page is
\* marked visited before it is sent on.
AppenderReceive ==
    /\ Alive
    /\ appPc = "recv"
    /\ siteFilterQueue # <<>>
    /\ LET newSite == Head(siteFilterQueue)
       IN  /\ siteFilterQueue' = Tail(siteFilterQueue)
           /\ appSite' = newSite
           /\ IF isExternalURL(newSite) \/ isMediaURL(newSite.URL)
              THEN appPc' = "retire" /\ UNCHANGED visitedSites
              ELSE IF SiteKey(newSite) \notin visitedSites
              THEN appPc' = "forward" /\ visitedSites' = visitedSites \cup {SiteKey(newSite)}
              ELSE appPc' = "retire" /\ UNCHANGED visitedSites
    /\ UNCHANGED <<config, runVars, workQueue, workQueueClosed, siteFilterQueueClosed,
                   resultQueue, resultQueueClosed, dcVars, admitted, wVars, smbVars,
                   seedPc, forwarders, panic,
                   entered>>

\* Line 141: the range loop ends when siteFilterQueue is closed and empty.
AppenderExit ==
    /\ Alive
    /\ appPc = "recv"
    /\ siteFilterQueue = <<>>
    /\ siteFilterQueueClosed
    /\ appPc' = "exited"
    /\ UNCHANGED <<config, runVars, chans, dcVars, appSite, visitedSites, admitted, wVars,
                   smbVars, seedPc, forwarders, panic,
                   entered>>

\* workQueueAppender sending on a workQueue that is never full.
AppenderForward_Unbounded ==
    /\ Alive
    /\ appPc = "forward"
    /\ IF workQueueClosed
       THEN Panics("send on closed channel")
       ELSE /\ workQueue' = Append(workQueue, appSite)
            /\ admitted' = admitted (+) One(appSite)
            /\ appPc' = "recv"
            /\ appSite' = NoSite
            /\ UNCHANGED <<config, runVars, workQueueClosed, siteFilterQueue,
                           siteFilterQueueClosed, resultQueue, resultQueueClosed, dcVars,
                           visitedSites, wVars, smbVars, seedPc, forwarders, panic,
                   entered>>

\* Line 151: workQueue <- newSite.  A send on a closed channel panics.
AppenderForward ==
    /\ Alive
    /\ appPc = "forward"
    /\ IF workQueueClosed
       THEN Panics("send on closed channel")
       ELSE /\ Len(workQueue) < workQueueCapacity
            /\ workQueue' = Append(workQueue, appSite)
            /\ admitted' = admitted (+) One(appSite)
            /\ appPc' = "recv"
            /\ appSite' = NoSite
            /\ UNCHANGED <<config, runVars, workQueueClosed, siteFilterQueue,
                           siteFilterQueueClosed, resultQueue, resultQueueClosed, dcVars,
                           visitedSites, wVars, smbVars, seedPc, forwarders, panic,
                   entered>>

\* Lines 143 and 153: workQueueDelta <- -1
AppenderRetire ==
    /\ Alive
    /\ appPc = "retire"
    /\ ApplyDelta(-1)
    /\ retired' = retired (+) One(<<appSite, "filter">>)
    /\ appPc' = "recv"
    /\ appSite' = NoSite
    /\ UNCHANGED <<config, runVars, chans, visitedSites, admitted, wVars, smbVars,
                   seedPc, forwarders, panic,
                   credited, entered>>

\* startWorker whose scrape sends len(sites) on workQueueDelta even when it is 0.
WorkerDequeue_AlwaysCredit(w) ==
    /\ Alive
    /\ wPc[w] = "dequeue"
    /\ workQueue # <<>>
    /\ LET site == Head(workQueue)
       IN  /\ workQueue' = Tail(workQueue)
           /\ wSite' = [wSite EXCEPT ![w] = site]
           /\ attempts' = attempts (+) One(site)
           /\ \E outcome \in FetchOutcomes :
                LET r == scrape(site, outcome)
                IN  IF r.err # Nil
                    THEN /\ wPc' = [wPc EXCEPT ![w] = "retire"]
                         /\ wNewSites' = [wNewSites EXCEPT ![w] = <<>>]
                         /\ UNCHANGED okPages
                    ELSE /\ wPc' = [wPc EXCEPT ![w] =
                                      "credit"]
                         /\ wNewSites' = [wNewSites EXCEPT ![w] = r.sites]
                         /\ okPages' = okPages (+) One(site)
    /\ UNCHANGED <<config, runVars, workQueueClosed, siteFilterQueue,
                   siteFilterQueueClosed, resultQueue, resultQueueClosed, dcVars, appVars,
                   wg, emitted, smbVars, seedPc, forwarders, panic,
                   entered>>

\* startWorker whose scrape does not send len(sites) on workQueueDelta.
WorkerDequeue_SkipCredit(w) ==
    /\ Alive
    /\ wPc[w] = "dequeue"
    /\ workQueue # <<>>
    /\ LET site == Head(workQueue)
       IN  /\ workQueue' = Tail(workQueue)
           /\ wSite' = [wSite EXCEPT ![w] = site]
           /\ attempts' = attempts (+) One(site)
           /\ \E outcome \in FetchOutcomes :
                LET r == scrape(site, outcome)
                IN  IF r.err # Nil
                    THEN /\ wPc' = [wPc EXCEPT ![w] = "retire"]
                         /\ wNewSites' = [wNewSites EXCEPT ![w] = <<>>]
                         /\ UNCHANGED okPages
                    ELSE /\ wPc' = [wPc EXCEPT ![w] =
                                      "result"]
                         /\ wNewSites' = [wNewSites EXCEPT ![w] = r.sites]
                         /\ okPages' = okPages (+) One(site)
    /\ UNCHANGED <<config, runVars, workQueueClosed, siteFilterQueue,
                   siteFilterQueueClosed, resultQueue, resultQueueClosed, dcVars, appVars,
                   wg, emitted, smbVars, seedPc, forwarders, panic,
                   entered>>

\* ------------------------------------------------------------ startWorker
\* Lines 171-173 with scrape's lines 193-218: a site is received and fetched,
\* and its links are extracted.  What comes next is a send: of the error's -1,
\* of the credit len(sites), or of the result when there is no new site.
WorkerDequeue(w) ==
    /\ Alive
    /\ wPc[w] = "dequeue"
    /\ workQueue # <<>>
    /\ LET site == Head(workQueue)
       IN  /\ workQueue' = Tail(workQueue)
           /\ wSite' = [wSite EXCEPT ![w] = site]
           /\ attempts' = attempts (+) One(site)
           /\ \E outcome \in FetchOutcomes :
                LET r == scrape(site, outcome)
                IN  IF r.err # Nil
                    THEN /\ wPc' = [wPc EXCEPT ![w] = "retire"]
                         /\ wNewSites' = [wNewSites EXCEPT ![w] = <<>>]
                         /\ UNCHANGED okPages
                    ELSE /\ wPc' = [wPc EXCEPT ![w] =
                                      IF Len(r.sites) # 0 THEN "credit" ELSE "result"]
                         /\ wNewSites' = [wNewSites EXCEPT ![w] = r.sites]
                         /\ okPages' = okPages (+) One(site)
    /\ UNCHANGED <<config, runVars, workQueueClosed, siteFilterQueue,
                   siteFilterQueueClosed, resultQueue, resultQueueClosed, dcVars, appVars,
                   wg, emitted, smbVars, seedPc, forwarders, panic,
                   entered>>

\* Lines 170-171: the range loop ends when workQueue is closed and empty, and
\* the deferred wg.Done() runs.
WorkerExit(w) ==
    /\ Alive
    /\ wPc[w] = "dequeue"
    /\ workQueue = <<>>
    /\ workQueueClosed
    /\ wPc' = [wPc EXCEPT ![w] = "exited"]
    /\ wg' = wg - 1
    /\ UNCHANGED <<config, runVars, chans, dcVars, appVars, wSite, wNewSites, attempts,
                   okPages, emitted, smbVars, seedPc, forwarders, panic,
                   entered>>

\* scrape, lines 219-221: workQueueDelta <- len(sites)
ScrapeCredit(w) ==
    /\ Alive
    /\ wPc[w] = "credit"
    /\ ApplyDelta(Len(wNewSites[w]))
    /\ credited' = credited (+) BagOfSeq(wNewSites[w])
    /\ wPc' = [wPc EXCEPT ![w] = "result"]
    /\ UNCHANGED <<config, runVars, chans, appVars, wSite, wNewSites, wg, attempts,
                   okPages, emitted, smbVars, seedPc, forwarders, panic,
                   retired, entered>>

\* Lines 180-186: resultQueue <- result, then the detached goroutine that will
\* send the new sites to siteFilterQueue is started.
WorkerResult(w) ==
    /\ Alive
    /\ wPc[w] = "result"
    /\ IF resultQueueClosed
       THEN Panics("send on closed channel")
       ELSE /\ Len(resultQueue) < workQueueCapacity
            /\ LET r == [SourceSite |-> wSite[w], ChildrenSites |-> wNewSites[w]]
               IN  /\ resultQueue' = Append(resultQueue, r)
                   /\ emitted' = emitted (+) One(r)
            /\ forwarders' = IF wNewSites[w] # <<>>
                             THEN forwarders (+) One(wNewSites[w])
                             ELSE forwarders
            /\ wPc' = [wPc EXCEPT ![w] = "retire"]
            /\ wNewSites' = [wNewSites EXCEPT ![w] = <<>>]
            /\ UNCHANGED <<config, runVars, workQueue, workQueueClosed, siteFilterQueue,
                           siteFilterQueueClosed, resultQueueClosed, dcVars, appVars,
                           wSite, wg, attempts, okPages, smbVars, seedPc, panic,
                   entered>>

\* startWorker sending the new sites to siteFilterQueue itself: its -1 waits
\* until the last of them is sent.
WorkerRetire_AfterChildren(w) ==
    /\ Alive
    /\ wPc[w] = "retire"
    /\ \A f \in BagToSet(forwarders) : \A i \in DOMAIN f : f[i].Parent # <<wSite[w].URL>>
    /\ ApplyDelta(-1)
    /\ retired' = retired (+) One(<<wSite[w], "worker">>)
    /\ wPc' = [wPc EXCEPT ![w] = "dequeue"]
    /\ wSite' = [wSite EXCEPT ![w] = NoSite]
    /\ UNCHANGED <<config, runVars, chans, appVars, wNewSites, wg, attempts, okPages,
                   emitted, smbVars, seedPc, forwarders, panic,
                   credited, entered>>

\* Lines 176 and 188: workQueueDelta <- -1, and back to the range loop.
WorkerRetire(w) ==
    /\ Alive
    /\ wPc[w] = "retire"
    /\ ApplyDelta(-1)
    /\ retired' = retired (+) One(<<wSite[w], "worker">>)
    /\ wPc' = [wPc EXCEPT ![w] = "dequeue"]
    /\ wSite' = [wSite EXCEPT ![w] = NoSite]
    /\ UNCHANGED <<config, runVars, chans, appVars, wNewSites, wg, attempts, okPages,
                   emitted, smbVars, seedPc, forwarders, panic,
                   credited, entered>>

\* Lines 182-186: a detached goroutine sends its next site to siteFilterQueue.
ForwardChild(f) ==
    /\ Alive
    /\ BagIn(f, forwarders)
    /\ IF siteFilterQueueClosed
       THEN Panics("send on closed channel")
       ELSE /\ Len(siteFilterQueue) < workQueueCapacity
            /\ siteFilterQueue' = Append(siteFilterQueue, Head(f))
            /\ entered' = entered (+) One(Head(f))
            /\ forwarders' = IF Tail(f) # <<>>
                             THEN (forwarders (-) One(f)) (+) One(Tail(f))
                             ELSE forwarders (-) One(f)
            /\ UNCHANGED <<config, runVars, workQueue, workQueueClosed,
                           siteFilterQueueClosed, resultQueue, resultQueueClosed, dcVars,
                           appVars, wVars, smbVars, seedPc, panic>>

\* ------------------------------------------------------------ siteMapBuilder
\* Lines 159-164: one result is received and a line is written for each child.
SiteMapBuilderReceive ==
    /\ Alive
    /\ smbPc = "recv"
    /\ resultQueue # <<>>
    /\ LET r == Head(resultQueue)
       IN  /\ resultQueue' = Tail(resultQueue)
           /\ sink' = sink (+) LinesOf(r.SourceSite, r.ChildrenSites)
           /\ consumed' = consumed (+) One(r)
    /\ UNCHANGED <<config, runVars, workQueue, workQueueClosed, siteFilterQueue,
                   siteFilterQueueClosed, resultQueueClosed, dcVars, appVars, wVars,
                   smbPc, seedPc, forwarders, panic,
                   entered>>

\* Line 159: the range loop ends when resultQueue is closed and empty.
SiteMapBuilderDrained ==
    /\ Alive
    /\ smbPc = "recv"
    /\ resultQueue = <<>>
    /\ resultQueueClosed
    /\ smbPc' = "sendDone"
    /\ UNCHANGED <<config, runVars, chans, dcVars, appVars, wVars, sink, consumed,
                   seedPc, forwarders, panic,
                   entered>>

\* ------------------------------------------------------------ specification
Next ==
    \/ RunValidate
    \/ RunStart
    \/ RunCloseSiteFilterQueue
    \/ RunCloseResultQueue
    \/ RunReturn
    \/ DoneCheckerCheck
    \/ SeedSendSite
    \/ SeedSendDelta
    \/ AppenderReceive
    \/ AppenderExit
    \/ AppenderForward
    \/ AppenderRetire
    \/ \E w \in Workers : WorkerDequeue(w)
    \/ \E w \in Workers : WorkerExit(w)
    \/ \E w \in Workers : ScrapeCredit(w)
    \/ \E w \in Workers : WorkerResult(w)
    \/ \E w \in Workers : WorkerRetire(w)
    \/ \E f \in BagToSet(forwarders) : ForwardChild(f)
    \/ SiteMapBuilderReceive
    \/ SiteMapBuilderDrained

Spec == Init /\ [][Next]_vars

\* A goroutine that can take a step is eventually scheduled.
FairSpec == Spec /\ WF_vars(Next)


\* ------------------------------------------------------------ properties
\* The configuration is one validate accepts whatever os.Create does: an
\* absolute http(s) seed, NumWorkers >= 1, a timeout >= 0 and a writer.
ValidConfig ==
    /\ SeedURL.ok
    /\ SeedURL.Scheme \in {Str_http, Str_https}
    /\ SeedURL.Host # <<>>
    /\ NumWorkers >= 1
    /\ HTTPClientTimeoutSec >= 0
    /\ SiteMapWriter

\* No site is anywhere in the pipeline.
NoSiteInFlight ==
    /\ siteFilterQueue = <<>>
    /\ forwarders = EmptyBag
    /\ appPc \notin {"forward", "retire"}
    /\ workQueue = <<>>
    /\ \A w \in Workers : wPc[w] \in {"dequeue", "exited"}

\* The sites whose fetch or link extraction failed.
FailedPages == attempts (-) okPages

\* C1: under fair scheduling, a Run with a valid configuration eventually
\* returns nil.  (Fails: the seed goroutine sends the seed before its +1, so the
\* total can hit zero early and a goroutine panics.)
C1_RunEventuallyReturns == ValidConfig => <>(runPc = "returned" /\ runErr = Nil)

\* C2: the running total becomes zero at most once, no delta is applied after
\* it did, and close(workQueue) is executed at most once.
C2_ZeroOnceCloseOnce == zeroHits <= 1 /\ ~lateDelta /\ closeCalls <= 1

\* C3: whenever the running total is zero after some delta was applied, no site
\* is in flight anywhere in the pipeline.
C3_ZeroOnlyAtQuiescence == (workQueueSize = 0 /\ nDeltas > 0) => NoSiteInFlight

\* C4: the running total workQueueSize is never negative.
C4_CounterNonNegative == workQueueSize >= 0

\* The canonical key as the specification words it: the URL string without its
\* scheme label.
CanonicalKey(u) == <<":", "/", "/">> \o u.Host \o u.Path

AtMostOncePerKey(B) ==
    /\ \A s \in BagToSet(B) : CopiesIn(s, B) = 1
    /\ \A s, t \in BagToSet(B) : CanonicalKey(s.URL) = CanonicalKey(t.URL) => s = t

\* C5: for every canonical key at most one site is forwarded to the crawl queue
\* and at most one fetch is attempted.
C5_NoSiteFetchedTwice == AtMostOncePerKey(admitted) /\ AtMostOncePerKey(attempts)

\* The run is over, every child of every fetched page went through the filter,
\* the root and /a were both fetched (each links to /b, one by http and one by
\* https, and /a links back to the root) and /b was fetched.
C5_Witness ==
    /\ runPc = "returned" /\ panic = Nil
    /\ forwarders = EmptyBag /\ siteFilterQueue = <<>>
    /\ \E s \in BagToSet(okPages) : s.URL.Path = <<>>
    /\ \E s \in BagToSet(okPages) : s.URL.Path = Str_a
    /\ \E s \in BagToSet(attempts) : s.URL.Path = Str_b

\* The distinct resolved links of the page at s, as strings.
ChildStrings(s) ==
    { URLString(Resolve(s, strToURL(Hrefs(s.URL)[i]).url)) :
        i \in { j \in DOMAIN Hrefs(s.URL) : strToURL(Hrefs(s.URL)[j]).err = Nil } }

ExpectedLines ==
    UNION { { URLString(s.URL) \o <<" ", "-", ">", " ">> \o c \o <<"\n">> :
                c \in ChildStrings(s) } : s \in BagToSet(okPages) }

\* C6: when Run returns, the sink holds exactly one line per successfully
\* fetched page and distinct resolved child of it, and exactly one result was
\* produced and consumed per successfully fetched page.
C6_OutputIsEdgeList ==
    (runPc = "returned" /\ runErr = Nil) =>
        /\ sink = SetToBag(ExpectedLines)
        /\ consumed = emitted
        /\ \A r \in BagToSet(emitted) :
             CopiesIn(r, emitted) = 1 /\ BagIn(r.SourceSite, okPages)
        /\ \A s \in BagToSet(okPages) :
             /\ CopiesIn(s, okPages) = 1
             /\ Cardinality({ r \in BagToSet(emitted) : r.SourceSite = s }) = 1

\* Run returned after the root (links to an external and a media page, and a
\* repeated link, and to /help, whose fetch fails) and /a were fetched.
C6_Witness ==
    /\ runPc = "returned" /\ runErr = Nil
    /\ \E s \in BagToSet(okPages) : s.URL.Path = <<>>
    /\ \E s \in BagToSet(okPages) : s.URL.Path = Str_a
    /\ \E s \in BagToSet(FailedPages) : s.URL.Path = Str_help
    /\ BagCardinality(sink) = 7

\* C7: every site a worker dequeues is the seed or has its parent's host, its
\* path has no media extension, and its host is the seed's.
C7_OnlyInternalPagesFetched ==
    \A s \in BagToSet(attempts) :
        /\ s.Parent = NoParent \/ s.URL.Host = s.Parent[1].Host
        /\ ~isMediaURL(s.URL)
        /\ s.URL.Host = SeedURL.Host

\* The external and the media child of the root went through the filter and
\* the run is over with several pages fetched.
C7_Witness ==
    /\ runPc = "returned" /\ panic = Nil
    /\ forwarders = EmptyBag /\ siteFilterQueue = <<>>
    /\ \E s \in BagToSet(okPages) : s.URL.Path = <<>>
    /\ BagCardinality(attempts) >= 3

\* C8: once a fetch has failed, the rest of the crawl still completes and Run
\* returns nil.  (Fails with C1.)
C8_FailureIsIsolated ==
    [](FailedPages # EmptyBag => <>(runPc = "returned" /\ runErr = Nil))

\* C9: the filter queue and the result queue are closed only after every worker
\* exited, a worker exits only when the crawl queue is closed and empty, and Run
\* returns only after siteMapBuilder received every result emitted.
C9_ShutdownOrder ==
    /\ (siteFilterQueueClosed \/ resultQueueClosed) =>
          \A w \in Workers : wPc[w] = "exited"
    /\ resultQueueClosed => siteFilterQueueClosed
    /\ \A w \in Workers : wPc[w] = "exited" => (workQueueClosed /\ workQueue = <<>>)
    /\ (runPc = "returned" /\ started) =>
          /\ resultQueueClosed
          /\ resultQueue = <<>>
          /\ consumed = emitted
          /\ smbPc = "exited"

\* Run returned from a crawl in which results were emitted.
C9_Witness == runPc = "returned" /\ started /\ BagCardinality(emitted) >= 2

\* The configuration is one the specification calls invalid.
InvalidConfig ==
    \/ ~SeedURL.ok
    \/ SeedURL.Scheme \notin {Str_http, Str_https}
    \/ SeedURL.Host = <<>>
    \/ NumWorkers <= 0
    \/ HTTPClientTimeoutSec < 0

NothingStarted ==
    /\ ~started
    /\ seedPc = "none" /\ dcPc = "none" /\ appPc = "none" /\ smbPc = "none"
    /\ Workers = {}
    /\ siteFilterQueue = <<>> /\ workQueue = <<>> /\ resultQueue = <<>>
    /\ attempts = EmptyBag
    /\ nDeltas = 0

\* C10: when validation fails, Run returns the error and no channel is made,
\* no goroutine started, no seed submitted and no fetch performed.
C10_InvalidConfigStartsNothing ==
    /\ InvalidConfig => (NothingStarted /\ runPc \in {"validate", "returned"})
    /\ (InvalidConfig /\ runPc = "returned") => runErr # Nil
    /\ runErr # Nil => (NothingStarted /\ runPc = "returned")

\* Run returned the worker-count error.
C10_Witness == runPc = "returned" /\ runErr = ErrInvalidNumWorkers /\ NumWorkers = 0

\* C11: each configuration error is reported by its own error value: when Run
\* has returned, a NumWorkers <= 0 (the timeout being valid, as in the test)
\* has made it return ErrInvalidNumWorkers and an HTTPClientTimeoutSec < 0 has
\* made it return ErrInvalidHTTPClientTimeout, whatever the other fields are.
C11_EachConfigErrorHasItsValue ==
    runPc = "returned" =>
        /\ (NumWorkers <= 0 /\ HTTPClientTimeoutSec >= 0) => runErr = ErrInvalidNumWorkers
        /\ HTTPClientTimeoutSec < 0 => runErr = ErrInvalidHTTPClientTimeout

\* C12: seeding precedes any work on the seed: a worker has dequeued a site, or
\* a delta has been applied, only after the seed's +1 was applied.
C12_SeedCreditedFirst ==
    (attempts # EmptyBag \/ nDeltas > 0) => seedPc = "done"

\* The number of -1 applied for a site, by either stage.
Retirements(s) == CopiesIn(<<s, "filter">>, retired) + CopiesIn(<<s, "worker">>, retired)

RetiredSites == {x[1] : x \in BagToSet(retired)}

ResultOf(s) == {r \in BagToSet(emitted) : r.SourceSite = s}

IsChildOf(c, r) ==
    /\ c.Parent = <<r.SourceSite.URL>>
    /\ \E i \in DOMAIN r.ChildrenSites : r.ChildrenSites[i] = c

\* C13: for a page fetched with N >= 1 children the credit +N is applied before
\* the Result is put on resultQueue, and the Result before any child is
\* submitted: a child that was submitted, admitted or retired has been credited
\* and its page's Result emitted, and a worker's -1 for a fetched page never
\* precedes that page's Result.
C13_CreditThenResultThenChildren ==
    /\ \A r \in BagToSet(emitted) :
         \A i \in DOMAIN r.ChildrenSites : BagIn(r.ChildrenSites[i], credited)
    /\ \A f \in BagToSet(forwarders) : \A i \in DOMAIN f :
         /\ BagIn(f[i], credited)
         /\ \E r \in BagToSet(emitted) : IsChildOf(f[i], r)
    /\ \A c \in BagToSet(entered) \cup BagToSet(admitted) \cup RetiredSites :
         c.Parent # NoParent =>
             /\ BagIn(c, credited)
             /\ \E r \in BagToSet(emitted) : IsChildOf(c, r)
    /\ \A s \in BagToSet(okPages) :
         BagIn(<<s, "worker">>, retired) => ResultOf(s) # {}

C13_Witness ==
    \E r \in BagToSet(emitted) :
        /\ Len(r.ChildrenSites) >= 1
        /\ BagIn(<<r.SourceSite, "worker">>, retired)
        /\ \E c \in BagToSet(admitted) : IsChildOf(c, r)
        /\ \E c \in RetiredSites : IsChildOf(c, r)

\* C14: every candidate that entered the pipeline is credited once and retired
\* once, by the filter stage or by a worker; a site forwarded to workQueue causes
\* no delta in the filter stage; nothing but a candidate is credited; and when
\* Run has returned every candidate has its credit and its -1 and the deltas
\* sum to zero.
C14_CreditedOnceRetiredOnce ==
    /\ \A c \in BagToSet(credited) : CopiesIn(c, credited) = 1
    /\ \A c \in RetiredSites : Retirements(c) = 1 /\ BagIn(c, entered)
    /\ \A c \in BagToSet(admitted) : ~BagIn(<<c, "filter">>, retired)
    /\ (started /\ runPc = "returned") =>
         /\ workQueueSize = 0
         /\ \A c \in BagToSet(entered) : BagIn(c, credited) /\ Retirements(c) = 1
         /\ \A c \in BagToSet(credited) : BagIn(c, entered)

\* The sites found on the pages fetched so far that are pages of the seed's host.
InternalPagesFound ==
    UNION { { c \in { scrape(pg, "ok").sites[i] : i \in DOMAIN scrape(pg, "ok").sites } :
                ~isExternalURL(c) /\ ~isMediaURL(c.URL) } : pg \in BagToSet(okPages) }

AllQueuesEmpty ==
    /\ workQueue = <<>>
    /\ siteFilterQueue = <<>>
    /\ resultQueue = <<>>
    /\ forwarders = EmptyBag
    /\ appPc \notin {"forward", "retire"}

\* C15: no item is dropped or left stuck: when Run has returned, every key of
\* the visited set was dequeued and fetch-attempted, the seed and every internal
\* page found on a fetched page were attempted, nothing else was, and all the
\* queues are empty.
C15_NothingDroppedAtReturn ==
    (started /\ runPc = "returned") =>
        /\ visitedSites = {SiteKey(a) : a \in BagToSet(attempts)}
        /\ \E a \in BagToSet(attempts) : a.Parent = NoParent
        /\ \A c \in InternalPagesFound :
             \E a \in BagToSet(attempts) : SiteKey(a) = SiteKey(c)
        /\ \A a \in BagToSet(attempts) :
             a.Parent = NoParent \/ a \in InternalPagesFound
        /\ AllQueuesEmpty

\* C16: no send is attempted on a closed channel: the appender never holds a
\* site for a closed workQueue, siteFilterQueue is closed only when no producer
\* of it is left, and resultQueue only when no worker has a result to send.
C16_NoSendOnClosedChannel ==
    /\ panic # "send on closed channel"
    /\ workQueueClosed => appPc # "forward"
    /\ siteFilterQueueClosed => (forwarders = EmptyBag /\ seedPc # "sendSite")
    /\ resultQueueClosed => \A w \in Workers : wPc[w] \notin {"credit", "result"}

\* C17: the pipeline is deadlock-free before Run returns: while the process
\* runs and Run has not returned some goroutine can take a step; and handing
\* the children over never blocks a worker's own retirement: a worker that has
\* emitted its Result can send its -1 as soon as workQueueDoneChecker is back
\* at its receive, whatever the state of the queues.
C17_NoDeadlockBeforeReturn ==
    /\ (Alive /\ runPc # "returned") => ENABLED Next
    /\ \A w \in Workers :
         (Alive /\ wPc[w] = "retire") =>
             (ENABLED WorkerRetire(w) \/ ENABLED DoneCheckerCheck)

\* The filter stage is blocked on a full workQueue while a worker that emitted
\* a Result with more children than the capacity has its -1 to send.
C17_Witness ==
    /\ Alive
    /\ appPc = "forward"
    /\ Len(workQueue) = workQueueCapacity
    /\ \E w \in Workers :
         /\ wPc[w] = "retire"
         /\ \E r \in ResultOf(wSite[w]) : Len(r.ChildrenSites) > workQueueCapacity

SameButScheme(s, t) == s.URL.Host = t.URL.Host /\ s.URL.Path = t.URL.Path

\* The site is still waiting for the filter stage's decision.
AtFilter(t) ==
    \/ \E i \in DOMAIN siteFilterQueue : siteFilterQueue[i] = t
    \/ (appPc = "retire" /\ appSite = t)

\* The sites the filter stage has marked visited and sent, or is sending, on.
Forwarded == BagToSet(admitted) \cup (IF appPc = "forward" THEN {appSite} ELSE {})

\* C18: de-duplication is scheme-insensitive: the key of a site is its URL
\* string without the scheme label, so the http and https variants of a URL
\* have one key; once one variant is admitted, every other variant that reaches
\* the filter stage is retired there by one -1 and is never admitted or fetched.
C18_SchemeInsensitiveDedup ==
    /\ \A s \in BagToSet(entered) : SiteKey(s) = CanonicalKey(s.URL)
    /\ \A s, t \in BagToSet(entered) : SameButScheme(s, t) => SiteKey(s) = SiteKey(t)
    /\ \A s \in Forwarded : \A t \in BagToSet(entered) :
         (t # s /\ SameButScheme(s, t)) =>
             /\ ~BagIn(t, admitted)
             /\ ~BagIn(t, attempts)
             /\ ~BagIn(<<t, "worker">>, retired)
             /\ CopiesIn(<<t, "filter">>, retired) = (IF AtFilter(t) THEN 0 ELSE 1)

\* The https variant of /b came first and was fetched; the http variant was
\* retired by the filter stage.
C18_Witness ==
    \E s \in BagToSet(attempts) : \E t \in RetiredSites :
        /\ s.URL.Scheme = Str_https /\ t.URL.Scheme = Str_http
        /\ s.URL.Path = Str_b /\ SameButScheme(s, t)
        /\ BagIn(s, admitted)
        /\ BagIn(<<t, "filter">>, retired)

\* The sites whose key is in visitedSites and that no worker has dequeued yet.
AdmittedUnfetched == Cardinality(visitedSites) - BagCardinality(attempts)

\* C19, as the specification words it: the number of admitted-but-unfetched sites is at most
\* 2 x NumWorkers, and siteFilterQueue never holds more than 2 x NumWorkers.
C19_AdmittedUnfetchedWithinCapacity ==
    started =>
        /\ AdmittedUnfetched <= workQueueCapacity
        /\ Len(siteFilterQueue) <= workQueueCapacity

\* C19, as the code has it: the admitted-but-unfetched sites are those in workQueue, at
\* most 2 x NumWorkers, and the one the filter stage has marked visited and is
\* sending: at most 2 x NumWorkers + 1 in all; siteFilterQueue never holds more
\* than 2 x NumWorkers.
C19_AdmittedUnfetchedWithinCapacityPlusOne ==
    started =>
        /\ AdmittedUnfetched = Len(workQueue) + (IF appPc = "forward" THEN 1 ELSE 0)
        /\ Len(workQueue) <= workQueueCapacity
        /\ AdmittedUnfetched <= workQueueCapacity + 1
        /\ Len(siteFilterQueue) <= workQueueCapacity

\* workQueue is full and the filter stage holds one more visited site.
C19_Witness ==
    /\ Alive
    /\ Len(workQueue) = workQueueCapacity
    /\ appPc = "forward"
    /\ AdmittedUnfetched = workQueueCapacity + 1

SeedSite == MkSite(strToAbsoluteURL(SeedURL).url, NoParent)

\* The pages fetched without error on which no new site was found.
ZeroChildPages == {s \in BagToSet(okPages) : scrape(s, "ok").sites = <<>>}

HeldByWorker(s) == \E w \in Workers : wSite[w] = s

\* A page without children causes no credit, one Result with no child and no
\* line, and one -1, sent by its worker.
ZeroChildPageAccounting ==
    \A s \in ZeroChildPages :
        /\ \A w \in Workers : wSite[w] = s => wPc[w] # "credit"
        /\ \A c \in BagToSet(credited) : c.Parent # <<s.URL>>
        /\ \A r \in ResultOf(s) :
             /\ r.ChildrenSites = <<>>
             /\ LinesOf(r.SourceSite, r.ChildrenSites) = EmptyBag
             /\ CopiesIn(r, emitted) = 1
        /\ Cardinality(ResultOf(s)) <= 1
        /\ ~BagIn(<<s, "filter">>, retired)
        /\ CopiesIn(<<s, "worker">>, retired) <= 1
        /\ BagIn(<<s, "worker">>, retired) => Cardinality(ResultOf(s)) = 1
        /\ ~HeldByWorker(s) =>
             (Cardinality(ResultOf(s)) = 1 /\ CopiesIn(<<s, "worker">>, retired) = 1)

\* Run was started on a seed whose page has no links.
SeedPageHasNoLinks ==
    /\ started
    /\ Served(SeedSite.URL)
    /\ Hrefs(SeedSite.URL) = <<>>

\* Run returned nil, nothing was written, and the only deltas were the seed's
\* +1 and its -1.
CrawlEndedEmpty ==
    /\ runPc = "returned" /\ runErr = Nil /\ panic = Nil
    /\ sink = EmptyBag
    /\ nDeltas = 2 /\ workQueueSize = 0

\* C20: a page fetched without error that has no distinct children sends no
\* credit, emits exactly one Result with an empty child list, which writes no
\* line, and is retired by exactly one -1; and a crawl whose seed page has no
\* links ends with Run returning nil and an empty output.
C20_ZeroChildrenPage ==
    /\ []ZeroChildPageAccounting
    /\ (SeedPageHasNoLinks ~> CrawlEndedEmpty)

\* The seed page was fetched, had no links, and Run returned with no output.
C20_Witness ==
    /\ SeedPageHasNoLinks
    /\ CrawlEndedEmpty
    /\ SeedSite \in ZeroChildPages
    /\ ResultOf(SeedSite) # {}

=============================================================================
